---- MODULE Spec2Model ----
(***************************************************************************)
(* A model of the 2048 game of src/src/game.class.ts (class Game) and of   *)
(* the tile-value sampler of src/unnamed/part_000 (class Utils).           *)
(*                                                                         *)
(* The state is the game object's private fields (#field, #score,          *)
(* #isUiBlocked), the tile elements of the page (the <div class="tile">    *)
(* elements, which the move functions look up by their data-row and        *)
(* data-col attributes) and the animations that are still running.         *)
(***************************************************************************)
EXTENDS Integers, Sequences, FiniteSets, TLC

(***************************************************************************)
(* Bounds of the model.                                                    *)
(***************************************************************************)
\* Key presses handled in one behaviour.
MaxKeys == 3
\* Math.random() is a multiple r / RandDen of 1 / RandDen in [0, 1).
RandDen == 16
\* SpecGrids draws its first grid with tiles 2^1 .. 2^MaxExp.
MaxExp == 2

(***************************************************************************)
(* Values and cells.                                                       *)
(***************************************************************************)
\* this.#field.length: the field is a 4 x 4 array literal.
N == 4
\* null, the content of an empty cell; it is falsy, as undefined is.
Null == 0
Undefined == -1

Falsy(v) == v = Null \/ v = Undefined

Index == 0..(N - 1)
Cells == Index \X Index

\* The cells in the order of the nested forEach of #generateRandomTile and
\* #buildTiles: row by row, each row left to right.
RowMajor == [k \in 1..(N * N) |-> <<(k - 1) \div N, (k - 1) % N>>]

\* A grid is the array of its rows, as #field is: the value of cell
\* <<row, col>> (indices from 0, as in the source) is At(f, <<row, col>>).
At(f, c) == f[c[1] + 1][c[2] + 1]

Put(f, c, v) == [f EXCEPT ![c[1] + 1][c[2] + 1] = v]

EmptyField == [r \in 1..N |-> [c \in 1..N |-> Null]]

(***************************************************************************)
(* Utils.getRandomTileValue.  The draw r stands for Math.random() =        *)
(* r / RandDen; weights are kept in tenths, so that the running value      *)
(* `pick` is an integer number of 1/(10 * RandDen).                        *)
(***************************************************************************)
possibleValues == <<[value |-> 2, weight |-> 9], [value |-> 4, weight |-> 1]>>

RECURSIVE SumWeights(_)
SumWeights(k) == IF k = 0 THEN 0 ELSE possibleValues[k].weight + SumWeights(k - 1)

probabilitiesSum == SumWeights(Len(possibleValues))

RECURSIVE PickLoop(_, _)
PickLoop(pick, k) ==
    IF k > Len(possibleValues)
    THEN Undefined   \* possibleValues[0.9]: no such key
    ELSE LET rest == pick - possibleValues[k].weight * RandDen
         IN  IF rest <= 0 THEN possibleValues[k].value ELSE PickLoop(rest, k + 1)

getRandomTileValue(r) == PickLoop(r * probabilitiesSum, 1)

(***************************************************************************)
(* Game.#generateRandomTile.  r1 is the draw of the cell, r2 of the value. *)
(***************************************************************************)
\* emptyCells with every cell pushed, the occupied ones too.
emptyCellsAll(f) == RowMajor

emptyCells(f) == SelectSeq(RowMajor, LAMBDA c : Falsy(At(f, c)))

\* Math.floor(Math.random() * (max - min) + min), min = 0, max = length - 1.
\* \div rounds down, as Math.floor does.
randomIndex(len, r) == (r * ((len - 1) - 0)) \div RandDen + 0

generateRandomTile(f, r1, r2) ==
    LET cells == emptyCells(f)
        idx   == randomIndex(Len(cells), r1)
    IN  IF idx >= 0 /\ idx < Len(cells)       \* emptyCells[idx] is defined
        THEN Put(f, cells[idx + 1], getRandomTileValue(r2))
        ELSE f

(***************************************************************************)
(* Game.#buildTiles after the removal of every .tile element: one element  *)
(* per occupied cell.  tiles[c] is the number of elements whose data-row   *)
(* and data-col name cell c.                                               *)
(***************************************************************************)
buildTiles(f) == [r \in 1..N |-> [c \in 1..N |-> IF Falsy(f[r][c]) THEN 0 ELSE 1]]

(***************************************************************************)
(* Game.#updateScore.  scoreEl is the page's #score-number element, which  *)
(* the game's page holds.                                                  *)
(***************************************************************************)
scoreEl == TRUE

\* updateScore adding the value of one of the two tiles.
updateScoreHalf(score, valueToAdd) == IF ~scoreEl THEN score ELSE score + valueToAdd \div 2

\* updateScore taking the value off the score.
updateScoreOff(score, valueToAdd) == IF ~scoreEl THEN score ELSE score - valueToAdd

updateScore(score, valueToAdd) == IF ~scoreEl THEN score ELSE score + valueToAdd

(***************************************************************************)
(* The traversal of a move function.  Its running state is a record st:    *)
(*   field, tiles, score, isUiBlocked  the fields it reads and writes,     *)
(*   promises         one entry per promise pushed: the animation started, *)
(*                    the cell the tile element left and the cursor cell,  *)
(*   isDidAnyActions  the local flag,                                      *)
(*   returned         TRUE once `if (!div) return;` was taken.             *)
(***************************************************************************)
\* animateMove with the value left in the cell the tile came from.
animateMoveCopy(st, from, to) ==
    [st EXCEPT !.isUiBlocked = TRUE,
               !.tiles = Put(Put(@, from, At(@, from) - 1), to, At(@, to) + 1),
               !.field = Put(@, to, At(@, from)),
               !.promises = Append(@, [kind |-> "move", from |-> from, to |-> to,
                                       value |-> At(st.field, from)]),
               !.isDidAnyActions = TRUE]

\* The body of the promise of the slide branch: the element found at cell
\* `from` gets the cursor's data-col / data-row, #animateMove starts its
\* animation (and sets #isUiBlocked), and the value changes cell.
animateMove(st, from, to) ==
    [st EXCEPT !.isUiBlocked = TRUE,
               !.tiles = Put(Put(@, from, At(@, from) - 1), to, At(@, to) + 1),
               !.field = Put(Put(@, to, At(@, from)), from, Null),
               !.promises = Append(@, [kind |-> "move", from |-> from, to |-> to,
                                       value |-> At(st.field, from)]),
               !.isDidAnyActions = TRUE]

\* animateMerge without `isDidAnyActions = true`.
animateMergeNoFlag(st, from, to) ==
    LET mergedValue == At(st.field, from) * 2
    IN  [st EXCEPT !.isUiBlocked = TRUE,
                   !.tiles = Put(Put(@, from, At(@, from) - 1), to, At(@, to) + 1),
                   !.field = Put(Put(@, to, mergedValue), from, Null),
                   !.score = updateScore(@, mergedValue),
                   !.promises = Append(@, [kind |-> "merge", from |-> from, to |-> to,
                                           value |-> mergedValue])]

\* animateMerge with the merged value a sum with 2, not a product.
animateMergePlusTwo(st, from, to) ==
    LET mergedValue == At(st.field, from) + 2
    IN  [st EXCEPT !.isUiBlocked = TRUE,
                   !.tiles = Put(Put(@, from, At(@, from) - 1), to, At(@, to) + 1),
                   !.field = Put(Put(@, to, mergedValue), from, Null),
                   !.score = updateScore(@, mergedValue),
                   !.promises = Append(@, [kind |-> "merge", from |-> from, to |-> to,
                                           value |-> mergedValue]),
                   !.isDidAnyActions = TRUE]

\* animateMerge with the merged tile's old cell not cleared.
animateMergeKeep(st, from, to) ==
    LET mergedValue == At(st.field, from) * 2
    IN  [st EXCEPT !.isUiBlocked = TRUE,
                   !.tiles = Put(Put(@, from, At(@, from) - 1), to, At(@, to) + 1),
                   !.field = Put(@, to, mergedValue),
                   !.score = updateScore(@, mergedValue),
                   !.promises = Append(@, [kind |-> "merge", from |-> from, to |-> to,
                                           value |-> mergedValue]),
                   !.isDidAnyActions = TRUE]

\* The body of the promise of the merge branch.
animateMerge(st, from, to) ==
    LET mergedValue == At(st.field, from) * 2
    IN  [st EXCEPT !.isUiBlocked = TRUE,
                   !.tiles = Put(Put(@, from, At(@, from) - 1), to, At(@, to) + 1),
                   !.field = Put(Put(@, to, mergedValue), from, Null),
                   !.score = updateScore(@, mergedValue),
                   !.promises = Append(@, [kind |-> "merge", from |-> from, to |-> to,
                                           value |-> mergedValue]),
                   !.isDidAnyActions = TRUE]

\* field[line][x] of the row functions, field[x][line] of the column ones.
CellOf(axis, line, x) == IF axis = "row" THEN <<line, x>> ELSE <<x, line>>

\* scan with `continue` in place of the `break` that follows a merge.
RECURSIVE scanChained(_, _, _, _, _, _)
scanChained(st, axis, step, line, cursor, i) ==
    LET here == CellOf(axis, line, i)
        to   == CellOf(axis, line, cursor)
    IN  IF i \notin Index THEN st
        ELSE IF Falsy(At(st.field, here))
             THEN scanChained(st, axis, step, line, cursor, i + step)
        ELSE IF At(st.tiles, here) = 0 THEN [st EXCEPT !.returned = TRUE]
        ELSE IF Falsy(At(st.field, to))
             THEN scanChained(animateMove(st, here, to), axis, step, line, cursor, i + step)
        ELSE IF At(st.field, to) = At(st.field, here)
             THEN scanChained(animateMerge(st, here, to), axis, step, line, cursor, i + step)
        ELSE st

\* scan with the merge branch taken for unequal tiles too.
RECURSIVE scanForced(_, _, _, _, _, _)
scanForced(st, axis, step, line, cursor, i) ==
    LET here == CellOf(axis, line, i)
        to   == CellOf(axis, line, cursor)
    IN  IF i \notin Index THEN st
        ELSE IF Falsy(At(st.field, here))
             THEN scanForced(st, axis, step, line, cursor, i + step)
        ELSE IF At(st.tiles, here) = 0 THEN [st EXCEPT !.returned = TRUE]
        ELSE IF Falsy(At(st.field, to))
             THEN scanForced(animateMove(st, here, to), axis, step, line, cursor, i + step)
        ELSE animateMerge(st, here, to)

\* The innermost loop: `for (let i = cursor + step; ...; i += step)`.
RECURSIVE scan(_, _, _, _, _, _)
scan(st, axis, step, line, cursor, i) ==
    LET here == CellOf(axis, line, i)
        to   == CellOf(axis, line, cursor)
    IN  IF i \notin Index THEN st
        ELSE IF Falsy(At(st.field, here)) THEN scan(st, axis, step, line, cursor, i + step)
        ELSE IF At(st.tiles, here) = 0 THEN [st EXCEPT !.returned = TRUE]
        ELSE IF Falsy(At(st.field, to))
             THEN scan(animateMove(st, here, to), axis, step, line, cursor, i + step)
        ELSE IF At(st.field, to) = At(st.field, here) THEN animateMerge(st, here, to)
        ELSE st

\* The middle loop: the cursor runs from the edge the tiles move to.
RECURSIVE cursorLoop(_, _, _, _, _)
cursorLoop(st, axis, step, line, cursor) ==
    IF cursor \notin Index \/ st.returned THEN st
    ELSE cursorLoop(scan(st, axis, step, line, cursor, cursor + step),
                    axis, step, line, cursor + step)

\* The outer loop: the lines, from index 0 up.
RECURSIVE lineLoop(_, _, _, _, _)
lineLoop(st, axis, step, first, line) ==
    IF line >= N \/ st.returned THEN st
    ELSE lineLoop(cursorLoop(st, axis, step, line, first), axis, step, first, line + 1)

\* moveRight with the loops of moveLeft.
moveRightAsLeft(st) == lineLoop(st, "row", 1, 0, 0)

moveLeft(st)  == lineLoop(st, "row", 1, 0, 0)
moveRight(st) == lineLoop(st, "row", -1, N - 1, 0)
moveDown(st)  == lineLoop(st, "col", -1, N - 1, 0)
moveUp(st)    == lineLoop(st, "col", 1, 0, 0)

\* The end of a move function, after the loops: the grids #field can hold
\* when it returns.  A tile is spawned if isDidAnyActions is set; nothing
\* follows the early `return;`.
\* afterMove without the call of #generateRandomTile.
afterMoveNoSpawn(st, draws) == {st.field}

afterMove(st, draws) ==
    IF ~st.returned /\ st.isDidAnyActions
    THEN {generateRandomTile(st.field, r1, r2) : r1, r2 \in draws}
    ELSE {st.field}

\* The keys of #keyBindings.  For any other key the listener finds no
\* function and changes nothing.
Codes == {"ArrowDown", "ArrowUp", "ArrowLeft", "ArrowRight"}

keyBindings(code, st) ==
    CASE code = "ArrowDown"  -> moveDown(st)
      [] code = "ArrowUp"    -> moveUp(st)
      [] code = "ArrowLeft"  -> moveLeft(st)
      [] code = "ArrowRight" -> moveRight(st)

(***************************************************************************)
(* The state.                                                              *)
(***************************************************************************)
VARIABLES
    pc,           \* "constructed" after new Game(), "running" after init()
    field,        \* #field
    score,        \* #score
    isUiBlocked,  \* #isUiBlocked
    tiles,        \* the .tile elements of the page, counted per cell
    anims,        \* the animations still running, one entry per move
    nKeys,        \* key presses handled so far
    last          \* what the last handled key press did

vars == <<pc, field, score, isUiBlocked, tiles, anims, nKeys, last>>

\* Every value of Math.random(), as a numerator over RandDen.
AllDraws == 0..(RandDen - 1)

\* The draws the behaviours take: the least and the largest value of
\* Math.random().
RandomDraws == {0, RandDen - 1}

NoMove ==
    [code |-> "none", before |-> EmptyField, beforeScore |-> 0, beforeTiles |-> EmptyField,
     slid |-> EmptyField, promises |-> <<>>, isDidAnyActions |-> FALSE,
     returned |-> FALSE, animating |-> FALSE]

\* The state after the constructor.
Init ==
    /\ pc = "constructed"
    /\ field = EmptyField
    /\ score = 0
    /\ isUiBlocked = FALSE
    /\ tiles = buildTiles(EmptyField)
    /\ anims = <<>>
    /\ nKeys = 0
    /\ last = NoMove

\* Game.init: two tiles, the tile elements, the keydown listener.
InitGame ==
    /\ pc = "constructed"
    /\ \E r1, r2, r3, r4 \in RandomDraws :
         LET one == generateRandomTile(field, r1, r2)
             two == generateRandomTile(one, r3, r4)
         IN  /\ field' = two
             /\ tiles' = buildTiles(two)
    /\ pc' = "running"
    /\ UNCHANGED <<score, isUiBlocked, anims, nKeys, last>>

(***************************************************************************)
(* The keydown listener.  The animations a move starts are one entry of    *)
(* anims: `moves` animations of #animateMove and `merges` of #animateMerge,*)
(* all started in the same task.  phase 1 is the 150 ms of                 *)
(* moveAnimationOptions, phase 2 the 200 ms of mergeAnimationOptions that  *)
(* follow it for a merge.  `then` tells whether the move function returned *)
(* its Promise.all, so that the listener's then() rebuilds the tiles.      *)
(***************************************************************************)
CountKind(promises, kind) ==
    Cardinality({k \in 1..Len(promises) : promises[k].kind = kind})

KeyDown(code) ==
    /\ pc = "running"
    /\ ~isUiBlocked
    /\ nKeys < MaxKeys
    /\ \E st \in {keyBindings(code, [field |-> field, tiles |-> tiles, score |-> score,
                                     isUiBlocked |-> isUiBlocked, promises |-> <<>>,
                                     isDidAnyActions |-> FALSE, returned |-> FALSE])} :
       \E spawned \in afterMove(st, RandomDraws) :
         \* Promise.all([]) is resolved at once: the listener's then()
         \* rebuilds the tiles before the next event.
         /\ field' = spawned
         /\ score' = st.score
         /\ isUiBlocked' = st.isUiBlocked
         /\ tiles' = IF ~st.returned /\ st.promises = <<>>
                     THEN buildTiles(spawned) ELSE st.tiles
         /\ anims' = IF st.promises = <<>> THEN anims
                     ELSE Append(anims, [moves |-> CountKind(st.promises, "move"),
                                         merges |-> CountKind(st.promises, "merge"),
                                         phase |-> 1, then |-> ~st.returned])
         /\ last' = [code |-> code, before |-> field, beforeScore |-> score,
                     beforeTiles |-> tiles, slid |-> st.field,
                     promises |-> st.promises,
                     isDidAnyActions |-> st.isDidAnyActions,
                     returned |-> st.returned, animating |-> anims # <<>>]
    /\ nKeys' = nKeys + 1
    /\ UNCHANGED pc

Remove(seq, b) == SubSeq(seq, 1, b - 1) \o SubSeq(seq, b + 1, Len(seq))

\* The 150 ms animations of entry b finish, in one frame: each callback of
\* #animateMove clears #isUiBlocked and resolves its promise; each merge goes
\* on to its scale animation.  Entries started earlier are past this point.
\* Animations of equal length end in the order they were started; between
\* the 150 ms of one move and the last 200 ms of an earlier one the order
\* depends on when the keys were pressed, and both orders are taken.
MoveAnimationsFinished(b) ==
    /\ b \in 1..Len(anims)
    /\ anims[b].phase = 1
    /\ \A j \in 1..(b - 1) : anims[j].phase = 2
    /\ isUiBlocked' = IF anims[b].moves > 0 THEN FALSE ELSE isUiBlocked
    /\ IF anims[b].merges = 0
       THEN /\ anims' = Remove(anims, b)
            /\ tiles' = IF anims[b].then THEN buildTiles(field) ELSE tiles
       ELSE /\ anims' = [anims EXCEPT ![b].phase = 2, ![b].moves = 0]
            /\ UNCHANGED tiles
    /\ UNCHANGED <<pc, field, score, nKeys, last>>

\* MergeAnimationsFinished with #isUiBlocked left as it is.
MergeAnimationsFinishedBlocked ==
    /\ anims # <<>>
    /\ anims[1].phase = 2
    /\ anims' = Tail(anims)
    /\ tiles' = IF anims[1].then THEN buildTiles(field) ELSE tiles
    /\ UNCHANGED <<pc, field, score, nKeys, last, isUiBlocked>>

\* The scale animations of the oldest entry finish: each callback of
\* #animateMerge clears #isUiBlocked and resolves its promise.
MergeAnimationsFinished ==
    /\ anims # <<>>
    /\ anims[1].phase = 2
    /\ isUiBlocked' = FALSE
    /\ anims' = Tail(anims)
    /\ tiles' = IF anims[1].then THEN buildTiles(field) ELSE tiles
    /\ UNCHANGED <<pc, field, score, nKeys, last>>

Next ==
    \/ InitGame
    \/ \E code \in Codes : KeyDown(code)
    \/ \E b \in 1..Len(anims) : MoveAnimationsFinished(b)
    \/ MergeAnimationsFinished

Spec == Init /\ [][Next]_vars

\* The game with every started animation finishing: an animation has a fixed
\* duration (150 ms, 200 ms), and the callback of its `finished` promise is
\* run when it is over.
SpecLive ==
    /\ Spec
    /\ WF_vars(\E b \in 1..Len(anims) : MoveAnimationsFinished(b))
    /\ WF_vars(MergeAnimationsFinished)

(***************************************************************************)
(* SpecGrids: the same listener and animations, started from a drawn state *)
(* of a running game with one key press left.  The tiles of the first grid *)
(* lie in one row or one column, at least two of them and a 2 or a 4 (the  *)
(* tile of the last spawn) among them.  Either the tile elements are those *)
(* #buildTiles made of the grid, or the last move merged two tiles into    *)
(* cell `merged` and spawned the tile of cell `fresh`, and the merge's     *)
(* animation still runs: both elements of the merge name cell `merged`,    *)
(* the element of `fresh` is not built yet, and the listener's then() is   *)
(* still to come.                                                          *)
(***************************************************************************)
TileValues == {2 ^ e : e \in 1..MaxExp}

LineOf(axis, line, content) ==
    [r \in 1..N |-> [c \in 1..N |->
        IF (IF axis = "row" THEN r ELSE c) - 1 = line
        THEN content[(IF axis = "row" THEN c ELSE r) - 1]
        ELSE Null]]

Occupied(f) == {c \in Cells : ~Falsy(At(f, c))}

LineGrids ==
    {f \in {LineOf(axis, line, content) :
              axis \in {"row", "col"}, line \in Index,
              content \in [Index -> TileValues \cup {Null}]} :
        /\ Cardinality(Occupied(f)) >= 2
        /\ \E c \in Cells : At(f, c) \in {2, 4}}

InitGrids ==
    /\ pc = "running"
    /\ field \in LineGrids
    /\ score = 0
    /\ isUiBlocked = FALSE
    /\ \/ /\ tiles = buildTiles(field)
          /\ anims = <<>>
       \/ \E fresh, merged \in Occupied(field) :
             /\ fresh # merged
             /\ At(field, fresh) \in {2, 4}
             /\ At(field, merged) >= 4
             /\ tiles = Put(Put(buildTiles(field), fresh, 0), merged, 2)
             /\ anims = <<[moves |-> 0, merges |-> 1, phase |-> 2, then |-> TRUE]>>
    /\ nKeys = MaxKeys - 1
    /\ last = NoMove

NextGrids ==
    \/ \E code \in Codes : KeyDown(code)
    \/ \E b \in 1..Len(anims) : MoveAnimationsFinished(b)
    \/ MergeAnimationsFinished

SpecGrids == InitGrids /\ [][NextGrids]_vars

(***************************************************************************)
(* SpecStuck: the same listener, started from a drawn state of a running   *)
(* game whose grid is full with no two neighbours equal.  The grids are    *)
(* all those of tiles 2, 4 and 8; the score is that of a game whose 8s     *)
(* were merged from spawned 4s.  The tile elements are those #buildTiles   *)
(* made of the grid or, for the grids of tiles 2 and 4, those of a move    *)
(* that merged two 2s into cell `merged` and spawned the tile of cell      *)
(* `fresh`, with the merge's animation still running.  No move of such a   *)
(* grid starts an animation, so that only the pending one finishes.        *)
(***************************************************************************)
StuckValues == {2, 4, 8}

StuckRows == {row \in [1..N -> StuckValues] : \A k \in 1..(N - 1) : row[k] # row[k + 1]}

\* The rows that can lie under row a.
Below(a) == {b \in StuckRows : \A k \in 1..N : a[k] # b[k]}

StuckGrids ==
    UNION {UNION {UNION {{<<a, b, c, d>> : d \in Below(c)} : c \in Below(b)}
                    : b \in Below(a)} : a \in StuckRows}

InitStuck ==
    /\ pc = "running"
    /\ field \in StuckGrids
    /\ isUiBlocked = FALSE
    /\ \/ /\ tiles = buildTiles(field)
          /\ anims = <<>>
          /\ score = 8 * Cardinality({c \in Cells : At(field, c) = 8})
       \/ \E fresh, merged \in Cells :
             /\ fresh # merged
             /\ \A c \in Cells : At(field, c) \in {2, 4}
             /\ At(field, merged) = 4
             /\ tiles = Put(Put(buildTiles(field), fresh, 0), merged, 2)
             /\ anims = <<[moves |-> 0, merges |-> 1, phase |-> 2, then |-> TRUE]>>
             /\ score = 4
    /\ nKeys = 0
    /\ last = NoMove

NextStuck ==
    \/ \E code \in Codes : KeyDown(code)
    \/ MergeAnimationsFinished

SpecStuck == InitStuck /\ [][NextStuck]_vars

(***************************************************************************)
(* The reference result of a move, line by line.                           *)
(***************************************************************************)
Moved == last.code # "none"

\* The cell at place k (1 = the edge the tiles move to) of a line.
PlaceCell(code, line, k) ==
    CASE code = "ArrowLeft"  -> <<line, k - 1>>
      [] code = "ArrowRight" -> <<line, N - k>>
      [] code = "ArrowUp"    -> <<k - 1, line>>
      [] code = "ArrowDown"  -> <<N - k, line>>

LineSeq(f, code, line) == [k \in 1..N |-> At(f, PlaceCell(code, line, k))]

DropEmpty(s) == SelectSeq(s, LAMBDA v : v # Null)

RECURSIVE MergePairs(_)
MergePairs(s) ==
    IF Len(s) < 2 THEN s
    ELSE IF s[1] = s[2] THEN <<2 * s[1]>> \o MergePairs(SubSeq(s, 3, Len(s)))
    ELSE <<s[1]>> \o MergePairs(Tail(s))

Pad(s) == [k \in 1..N |-> IF k <= Len(s) THEN s[k] ELSE Null]

ReferenceLine(s) == Pad(MergePairs(DropEmpty(s)))

\* The place of cell c in its line, and the line it lies in.
PlaceOf(code, c) ==
    CASE code = "ArrowLeft"  -> c[2] + 1
      [] code = "ArrowRight" -> N - c[2]
      [] code = "ArrowUp"    -> c[1] + 1
      [] code = "ArrowDown"  -> N - c[1]

LineIn(code, c) == IF code \in {"ArrowLeft", "ArrowRight"} THEN c[1] ELSE c[2]

Reference(f, code) ==
    [r \in 1..N |-> [c \in 1..N |->
        ReferenceLine(LineSeq(f, code, LineIn(code, <<r - 1, c - 1>>)))
           [PlaceOf(code, <<r - 1, c - 1>>)]]]

\* C1: for every grid and direction, the grid after the slide/merge phase of
\* a move is the reference result: each line with its empty cells dropped,
\* each pair of consecutive equal tiles replaced from the leading edge by one
\* tile of double value, padded with empties.
C1_SlideIsReference == Moved => last.slid = Reference(last.before, last.code)

\* What holds of the code: a move that ran its whole traversal gives the
\* reference result.
CompleteMoveIsReference ==
    (Moved /\ ~last.returned) => last.slid = Reference(last.before, last.code)

(***************************************************************************)
(* Merges of the last move.                                                *)
(***************************************************************************)
Merges == {k \in 1..Len(last.promises) : last.promises[k].kind = "merge"}

Lines == 0..(N - 1)

CanAct(f, code) ==
    \E line \in Lines : \E p, q \in 1..N :
       /\ p < q
       /\ LineSeq(f, code, line)[q] # Null
       /\ \/ LineSeq(f, code, line)[p] = Null
          \/ /\ LineSeq(f, code, line)[p] = LineSeq(f, code, line)[q]
             /\ \A m \in (p + 1)..(q - 1) : LineSeq(f, code, line)[m] = Null

\* C3: a move sets isDidAnyActions exactly when it did a slide or a merge,
\* which is exactly when the grid after the slide/merge phase differs from
\* the grid before; when no slide or merge is possible in any line, the grid
\* and the score are left as they were and no tile is spawned.
C3_ChangedIffActed ==
    Moved =>
      /\ last.isDidAnyActions <=> (last.promises # <<>>)
      /\ last.isDidAnyActions <=> (last.slid # last.before)
      /\ ~CanAct(last.before, last.code) =>
            /\ ~last.isDidAnyActions
            /\ last.promises = <<>>
            /\ field = last.before
            /\ score = last.beforeScore

\* A key press on a grid with tiles where nothing can slide or merge.
C3_Witness ==
    /\ Moved
    /\ ~last.returned
    /\ Cardinality(Occupied(last.before)) >= 2
    /\ ~CanAct(last.before, last.code)
    /\ field = last.before

\* The cells whose value differs between two grids.
Differing(f, g) == {c \in Cells : At(f, c) # At(g, c)}

\* C4: after every move that changed the grid exactly one tile is spawned:
\* one cell that was empty after the slide/merge phase holds a 2 or a 4 and
\* every other cell is as the slide/merge phase left it.
C4_OneSpawnAfterChange ==
    (Moved /\ last.slid # last.before) =>
       \E c \in Cells :
          /\ Differing(field, last.slid) = {c}
          /\ At(last.slid, c) = Null
          /\ At(field, c) \in {2, 4}

\* What holds of the code: a move that ran its whole traversal and changed
\* the grid spawns exactly one tile, in a cell that was empty.
CompleteMoveSpawnsOne ==
    (Moved /\ ~last.returned /\ last.slid # last.before) =>
       \E c \in Cells :
          /\ Differing(field, last.slid) = {c}
          /\ At(last.slid, c) = Null
          /\ At(field, c) \in {2, 4}

\* The cells #generateRandomTile can fill in grid f, over every value of
\* Math.random().
SpawnCells(f) ==
    UNION {Differing(generateRandomTile(f, r1, r2), f) : r1, r2 \in AllDraws}

\* C5: whenever a tile is spawned, every empty cell of the grid is a possible
\* destination of the new tile, the last one in row-major order included.
C5_EveryEmptyCellPossible ==
    (Moved /\ ~last.returned /\ last.isDidAnyActions) =>
       \A c \in Cells : At(last.slid, c) = Null => c \in SpawnCells(last.slid)

\* What holds of the code: with two or more empty cells, every empty cell but
\* the last in row-major order is a possible destination, and the last never.
SpawnSkipsLastEmptyCell ==
    (Moved /\ ~last.returned /\ last.isDidAnyActions) =>
       LET cells == emptyCells(last.slid)
       IN  SpawnCells(last.slid) =
              IF Len(cells) = 1 THEN {cells[1]}
              ELSE {cells[k] : k \in 1..(Len(cells) - 1)}

\* C6: no key press is executed as a move while an animation of an earlier
\* move is running, nor before the tile elements were rebuilt from the grid;
\* #isUiBlocked is set as long as an animation runs.
C6_InputSerialized ==
    /\ Moved => (~last.animating /\ last.beforeTiles = buildTiles(last.before))
    /\ anims # <<>> => isUiBlocked

(***************************************************************************)
(* Tile values as a multiset: the number of cells holding each value.      *)
(***************************************************************************)
\* The greatest tile of an N x N grid is 2^(N * N + 1).
Powers == {2 ^ e : e \in 1..(N * N + 1)}

Count(f, v) == Cardinality({c \in Cells : At(f, c) = v})

\* The merges of the last move that produced a tile of value v.
Produced(v) == Cardinality({k \in Merges : last.promises[k].value = v})

\* The values two grids hold.
ValuesOf(f, g) == ({At(f, c) : c \in Cells} \cup {At(g, c) : c \in Cells}) \ {Null}

SameValues(f, g) == \A v \in ValuesOf(f, g) : Count(f, v) = Count(g, v)

\* The values the last move can have changed the number of: those of the two
\* grids, those its merges produced and their halves.
Touched ==
    ValuesOf(last.before, last.slid)
       \cup {last.promises[k].value : k \in Merges}
       \cup {last.promises[k].value \div 2 : k \in Merges}

\* C7 as stated: the tile values after the slide/merge phase are those before
\* the move, or those with exactly one pair of equal values replaced by their
\* sum.
C7_AtMostOnePairReplaced ==
    Moved =>
       \/ SameValues(last.slid, last.before)
       \/ \E v \in Powers :
             /\ Count(last.before, v) >= 2
             /\ \A w \in Powers :
                   Count(last.slid, w) =
                      Count(last.before, w) - (IF w = v THEN 2 ELSE 0)
                                            + (IF w = 2 * v THEN 1 ELSE 0)

\* C7 amended: the tile values after the slide/merge phase are those before
\* the move with, for each merge of the move, one pair of equal values of the
\* grid before the move replaced by their sum; the pairs are disjoint, and
\* there is none in a move without merge.
C7_PairsReplaced ==
    Moved =>
       /\ \A v \in Touched :
             /\ 2 * Produced(2 * v) <= Count(last.before, v)
             /\ Count(last.slid, v) =
                   Count(last.before, v) - 2 * Produced(2 * v) + Produced(v)
       /\ \A c \in Cells : At(last.slid, c) = Null \/ At(last.slid, c) \in Powers
       /\ Merges = {} => SameValues(last.slid, last.before)

\* A move with two merges.
C7_Witness ==
    /\ Moved
    /\ Cardinality(Merges) = 2
    /\ ~SameValues(last.slid, last.before)

\* C8: the occupied cells after the slide/merge phase are as many as before
\* the move less the merges of the move; a slide leaves their number as it
\* is.
C8_TileCount ==
    Moved =>
       Cardinality(Occupied(last.slid)) =
          Cardinality(Occupied(last.before)) - Cardinality(Merges)

\* A move with a slide and a merge.
C8_Witness ==
    /\ Moved
    /\ Merges # {}
    /\ \E k \in 1..Len(last.promises) : last.promises[k].kind = "move"
    /\ Cardinality(Occupied(last.slid)) < Cardinality(Occupied(last.before))

\* C9: in every state every non-empty cell holds a power of two, 2 at least.
C9_PowersOfTwo ==
    \A c \in Cells : At(field, c) = Null \/ At(field, c) \in Powers

\* A grid with a merged tile and a spawned tile.
C9_Witness ==
    /\ Moved
    /\ \E c \in Cells : At(field, c) >= 8
    /\ \E c \in Cells : At(field, c) = 2

\* The cell the tile of promise k stood in before the move: the tile may
\* have slid earlier in the move.
RECURSIVE InitialCell(_, _)
InitialCell(promises, k) ==
    LET earlier == {j \in 1..(k - 1) : promises[j].to = promises[k].from}
    IN  IF earlier = {} THEN promises[k].from
        ELSE InitialCell(promises, CHOOSE j \in earlier : \A i \in earlier : i <= j)

\* The sum, over the merges among `promises`, of the values grid f holds in
\* the cells merged into.
RECURSIVE MergedInto(_, _)
MergedInto(f, promises) ==
    IF promises = <<>> THEN 0
    ELSE (IF Head(promises).kind = "merge" THEN At(f, Head(promises).to) ELSE 0)
            + MergedInto(f, Tail(promises))

\* C10: a move adds to the score the sum of the doubled values its merges
\* produced, which are the values of the cells merged into; a move without
\* merge leaves the score as it was.
C10_ScoreDelta ==
    Moved =>
       /\ score = last.beforeScore + MergedInto(last.slid, last.promises)
       /\ \A k \in Merges :
             At(last.slid, last.promises[k].to)
                = 2 * At(last.before, InitialCell(last.promises, k))
       /\ Merges = {} => score = last.beforeScore

\* A move with two merges, of tiles of different values.
C10_Witness ==
    /\ Moved
    /\ \E j, k \in Merges : last.promises[j].value # last.promises[k].value
    /\ score > last.beforeScore

(***************************************************************************)
(* The grid that init() leaves.                                            *)
(***************************************************************************)
TwoInitialTiles(f) ==
    /\ Cardinality(Occupied(f)) = 2
    /\ \A c \in Occupied(f) : At(f, c) \in {2, 4}

\* C11: after init() and before the first key press is handled the grid holds
\* exactly two tiles, in two distinct cells, each a 2 or a 4, every other
\* cell is empty and the score is 0; this is so for every value the four
\* calls of Math.random() can return.
C11_InitialGrid ==
    /\ (pc = "running" /\ nKeys = 0) => (TwoInitialTiles(field) /\ score = 0)
    /\ pc = "constructed" =>
          /\ field = EmptyField
          /\ score = 0
          /\ \A one \in {generateRandomTile(field, r1, r2) : r1, r2 \in AllDraws} :
                \A r3, r4 \in AllDraws :
                   TwoInitialTiles(generateRandomTile(one, r3, r4))

\* The grid after init(), with a 2 and a 4.
C11_Witness ==
    /\ pc = "running"
    /\ nKeys = 0
    /\ \E c, d \in Cells : At(field, c) = 2 /\ At(field, d) = 4

(***************************************************************************)
(* Full grids without equal neighbours.                                    *)
(***************************************************************************)
Neighbours(c, d) ==
    \/ c[1] = d[1] /\ (c[2] = d[2] + 1 \/ d[2] = c[2] + 1)
    \/ c[2] = d[2] /\ (c[1] = d[1] + 1 \/ d[1] = c[1] + 1)

Stuck(f) ==
    /\ \A c \in Cells : ~Falsy(At(f, c))
    /\ \A c, d \in Cells : Neighbours(c, d) => At(f, c) # At(f, d)

\* C12: once the grid is full with no two horizontally or vertically adjacent
\* cells equal, every step leaves the grid and the score as they are: a key
\* press in any of the four directions does no slide and no merge, reports
\* no action (isDidAnyActions stays false, no promise is pushed) and spawns
\* no tile, and so does every later one.
C12_StuckIsAbsorbing ==
    [][Stuck(field) =>
          /\ field' = field
          /\ score' = score
          /\ nKeys' # nKeys =>
                /\ ~last'.isDidAnyActions
                /\ last'.promises = <<>>
                /\ last'.slid = field]_vars

\* A full grid without equal neighbours after two key presses or more, the
\* last of them with every tile element in place.
C12_Witness ==
    /\ Moved
    /\ nKeys >= 2
    /\ ~last.returned
    /\ Stuck(last.before)
    /\ field = last.before
    /\ \E c \in Cells : At(field, c) = 8

\* C13: the score is never negative and no step lowers it: after every key
\* press, whether it changed the grid or not and whatever its direction, and
\* after every animation callback, the score is at least what it was.
C13_ScoreMonotone == [](score >= 0) /\ [][score' >= score]_vars

\* A key press that raised a score already raised by an earlier one.
C13_Witness ==
    /\ Moved
    /\ last.beforeScore > 0
    /\ score > last.beforeScore

(***************************************************************************)
(* The sampler's loop as a function of the running draw `pick`, in units   *)
(* of 1 / (10 * RandDen).                                                  *)
(***************************************************************************)
\* The weights of the entries up to the k-th, in the units of `pick`.
Cumulative(k) == SumWeights(k) * RandDen

\* The entries at which the running draw is <= 0.
AtOrBelow(pick) == {k \in 1..Len(possibleValues) : pick - Cumulative(k) <= 0}

First(ks) == CHOOSE k \in ks : \A j \in ks : k <= j

\* Math.random() * probabilitiesSum for every Math.random() in [0, 1), and
\* the values of `pick` up to one unit above the sum of the weights, for
\* which no entry brings the running draw to 0.
DrawnPicks == {r * probabilitiesSum : r \in AllDraws}

Picks == 0..(probabilitiesSum * RandDen + 1)

SamplerOnDraws ==
    pc = "running" =>
    /\ \A pick \in DrawnPicks :
          /\ AtOrBelow(pick) # {}
          /\ PickLoop(pick, 1) = possibleValues[First(AtOrBelow(pick))].value
    /\ \A pick \in Picks : AtOrBelow(pick) = {} => PickLoop(pick, 1) = Undefined

\* C15: every key press that is handled as a move runs its whole traversal:
\* no move returns at `if (!div) return;` for want of the tile element of an
\* occupied cell, not even one accepted while animations of an earlier move
\* are pending or before the tiles are rebuilt.
C15_NoEarlyReturn == Moved => ~last.returned

\* What holds of the code: a move returns early only when it starts on tile
\* elements that are not those #buildTiles makes of the grid.
EarlyReturnNeedsStaleTiles ==
    (Moved /\ last.beforeTiles = buildTiles(last.before)) => ~last.returned

(***************************************************************************)
(* The symmetries of the grid, applied to #field and to the tile elements. *)
(***************************************************************************)
ReverseRows(g) == [r \in 1..N |-> [c \in 1..N |-> g[r][N + 1 - c]]]

Transpose(g) == [r \in 1..N |-> [c \in 1..N |-> g[c][r]]]

\* The state a move function starts in.
Start ==
    [field |-> field, tiles |-> tiles, score |-> score, isUiBlocked |-> isUiBlocked,
     promises |-> <<>>, isDidAnyActions |-> FALSE, returned |-> FALSE]

Reversed(st) == [st EXCEPT !.field = ReverseRows(@), !.tiles = ReverseRows(@)]

Transposed(st) == [st EXCEPT !.field = Transpose(@), !.tiles = Transpose(@)]

\* Two runs of move functions agree: the grid of the first is grid g, and
\* score, isDidAnyActions and the early return are the same.
Agree(st, g, other) ==
    /\ st.field = g
    /\ st.score = other.score
    /\ st.isDidAnyActions = other.isDidAnyActions
    /\ st.returned = other.returned

\* C16: the four move functions are one algorithm up to symmetry: on every
\* grid the slide/merge phase of #moveRight gives what #moveLeft gives on the
\* grid with its rows reversed, reversed back; #moveUp what #moveLeft gives
\* on the transposed grid, transposed back; #moveDown what #moveRight gives
\* on the transposed grid, transposed back; each with the same score.
C16_MovesSymmetric ==
    pc = "running" =>
       /\ \A st \in {moveLeft(Reversed(Start))} :
             Agree(moveRight(Start), ReverseRows(st.field), st)
       /\ \A st \in {moveLeft(Transposed(Start))} :
             Agree(moveUp(Start), Transpose(st.field), st)
       /\ \A st \in {moveRight(Transposed(Start))} :
             Agree(moveDown(Start), Transpose(st.field), st)

\* The state the last move started in.
Before ==
    [field |-> last.before, tiles |-> last.beforeTiles, score |-> last.beforeScore,
     isUiBlocked |-> FALSE, promises |-> <<>>, isDidAnyActions |-> FALSE,
     returned |-> FALSE]

\* An ArrowDown with a merge, whose grid is that of #moveRight on the
\* transposed grid and is not the grid #moveUp or #moveLeft would have given.
C16_Witness ==
    /\ Moved
    /\ last.code = "ArrowDown"
    /\ Merges # {}
    /\ ~last.returned
    /\ \A st \in {moveRight(Transposed(Before))} :
          /\ last.slid = Transpose(st.field)
          /\ st.score > last.beforeScore
    /\ last.slid \notin {moveUp(Before).field, moveLeft(Before).field}

\* The sum of the values of the cells RowMajor[1..k] of grid f.
RECURSIVE SumCells(_, _)
SumCells(f, k) == IF k = 0 THEN 0 ELSE At(f, RowMajor[k]) + SumCells(f, k - 1)

Total(f) == SumCells(f, N * N)

\* C17: the slide/merge phase of a move keeps the total of the tile values:
\* the sum of all cells before the spawn is the sum of all cells before the
\* move, a merge putting 2v for v + v and a slide moving a value as it is.
C17_TotalConserved == Moved => Total(last.slid) = Total(last.before)

\* A move with a slide and a merge, after which a 4 was spawned.
C17_Witness ==
    /\ Moved
    /\ Merges # {}
    /\ CountKind(last.promises, "move") > 0
    /\ Total(last.before) > 0
    /\ Total(field) = Total(last.before) + 4

\* C18: in every state of the running game the grid holds two tiles at least
\* and N * N at most: no sequence of key presses leaves the grid empty or
\* with a single tile.
C18_TileBounds ==
    pc = "running" =>
       /\ Cardinality(Occupied(field)) >= 2
       /\ Cardinality(Occupied(field)) <= N * N

\* A move that merged the only two tiles: one tile after the slide/merge
\* phase, two after the spawn.
C18_Witness ==
    /\ Moved
    /\ Cardinality(Occupied(last.before)) = 2
    /\ Cardinality(Occupied(last.slid)) = 1
    /\ Cardinality(Occupied(field)) = 2

\* C19: input does not stay frozen: with every started animation finishing,
\* #isUiBlocked, whenever set, is cleared later on, and it is false in every
\* state without a running animation, where the listener handles the next
\* key press.
C19_InputNotFrozen ==
    /\ [](anims = <<>> => ~isUiBlocked)
    /\ isUiBlocked ~> ~isUiBlocked

\* A move whose animations, a merge's among them, have all finished, with
\* the flag cleared.
C19_Witness ==
    /\ Moved
    /\ Merges # {}
    /\ anims = <<>>
    /\ ~isUiBlocked
    /\ tiles = buildTiles(field)

====
